---- MODULE Spec2Model ----
(***************************************************************************)
(* Model of the HubSpot workflow scripts of this repository:               *)
(*   - dedupe-contact.js : contact dedupe run (exports.main)               *)
(*   - dedupe-company.js : company merge executor (retryWithBackoff and    *)
(*                         the merge loop of exports.main, levenshtein)    *)
(*   - normalize-phone-number.js : normalizePhoneNumber, safeUpdateContact *)
(*                         and the run of exports.main                     *)
(* Strings are sequences of one-character strings, so that trim,           *)
(* toLowerCase, split and replace are computed as the code computes them.  *)
(* The remote store is the environment: every call may answer with any     *)
(* of its possible responses.                                              *)
(***************************************************************************)
EXTENDS Integers, Sequences, FiniteSets, TLC

\* ------------------------------------------------------------------------
\* Bounds of the model
\* ------------------------------------------------------------------------

\* number of stored contacts other than the enrolled one
NumCandidates == 3

\* largest number of digits of an input of normalizePhoneNumber
MaxPhoneDigits == 11

\* number of company records in a resolved group (enrolled company included)
MaxCompanies == 3

\* largest length of an argument of levenshtein
MaxNameLen == 3

\* ------------------------------------------------------------------------
\* JavaScript values
\* ------------------------------------------------------------------------

\* undefined / null: a value no string (sequence of characters) is equal to
NoVal == <<"undefined">>

\* JS truthiness of an optional string: undefined, null and '' are falsy
Truthy(s) == s # NoVal /\ s # <<>>

\* v || d
OrElse(v, d) == IF Truthy(v) THEN v ELSE d

Digits == {"0", "1", "2", "3", "4", "5", "6", "7", "8", "9"}

\* s.replace(/\D/g, '')
StripNonDigits(s) == SelectSeq(s, LAMBDA c : c \in Digits)

\* s.replace(/\./g, '')
StripDots(s) == SelectSeq(s, LAMBDA c : c # ".")

RECURSIVE TrimLeft(_)
TrimLeft(s) == IF s # <<>> /\ Head(s) = " " THEN TrimLeft(Tail(s)) ELSE s

RECURSIVE TrimRight(_)
TrimRight(s) ==
    IF s # <<>> /\ s[Len(s)] = " " THEN TrimRight(SubSeq(s, 1, Len(s) - 1)) ELSE s

\* s.trim()
Trim(s) == TrimRight(TrimLeft(s))

LowerChar(c) ==
    CASE c = "A" -> "a"
      [] c = "C" -> "c"
      [] c = "D" -> "d"
      [] c = "J" -> "j"
      [] c = "K" -> "k"
      [] c = "X" -> "x"
      [] OTHER -> c

\* s.toLowerCase()
ToLowerCase(s) == [i \in 1..Len(s) |-> LowerChar(s[i])]

\* index of the first occurrence of character ch in s, 0 when there is none
RECURSIVE IndexFrom(_, _, _)
IndexFrom(s, ch, i) ==
    IF i > Len(s) THEN 0
    ELSE IF s[i] = ch THEN i
    ELSE IndexFrom(s, ch, i + 1)

IndexOf(s, ch) == IndexFrom(s, ch, 1)

\* s.split(ch)[0]
Split0(s, ch) ==
    IF IndexOf(s, ch) = 0 THEN s ELSE SubSeq(s, 1, IndexOf(s, ch) - 1)

\* s.split(ch)[1]: undefined when s holds no ch
Split1(s, ch) ==
    IF IndexOf(s, ch) = 0 THEN NoVal
    ELSE Split0(SubSeq(s, IndexOf(s, ch) + 1, Len(s)), ch)

DigitValue(c) ==
    CASE c = "0" -> 0 [] c = "1" -> 1 [] c = "2" -> 2 [] c = "3" -> 3
      [] c = "4" -> 4 [] c = "5" -> 5 [] c = "6" -> 6 [] c = "7" -> 7
      [] c = "8" -> 8 [] c = "9" -> 9 [] OTHER -> 0

\* new Date(s).getTime() for a timestamp the store renders as a digit string
RECURSIVE DateGetTime(_)
DateGetTime(s) ==
    IF s = <<>> THEN 0
    ELSE 10 * DateGetTime(SubSeq(s, 1, Len(s) - 1)) + DigitValue(s[Len(s)])

\* String(n) for the object ids of the model
IdStrings == <<"1", "2", "3", "4", "5", "6", "7", "8">>
String(n) == IdStrings[n]


\* ------------------------------------------------------------------------
\* State
\* ------------------------------------------------------------------------
VARIABLES
    prog,            \* which script or function this run executes
    \* --- dedupe-contact.js
    pc,              \* position of the contact run
    subject,         \* the enrolled contact as the store holds it
    contact,         \* the record fetched by getById
    results,         \* raw records of the last search response
    matches,         \* let matches
    matchStep,       \* let matchStep
    searchLog,       \* searches issued so far: step number and size of the filtered set
    mergeCalls,      \* merge requests posted so far, with the store's answer
    callbackLog,     \* outputFields passed to callback so far
    \* --- dedupe-company.js
    coPc,            \* position of the company run
    clientShape,     \* the shape of the objects hubspotClient resolves to
    inputCompanyId,  \* event.inputFields['hs_object_id']
    matchType,       \* let matchType
    enrichedMatches, \* matched records with their creation time
    survivor,        \* the record kept
    duplicatesToCheck,
    dupIndex,        \* index of the for..of loop over duplicatesToCheck
    mergedCount,
    mergedFromIds,
    failedMergeIds,
    skippedMergeIds,
    retries,         \* retryWithBackoff: retries left for the merge in progress
    delay,           \* retryWithBackoff: wait before the next retry
    coTrace,         \* store calls and waits of the company run, in order
    coCallbackLog,   \* outputFields passed to callback so far
    \* --- normalize-phone-number.js: exports.main
    phPc,            \* position of the phone run
    phProperties,    \* contactResponse.properties, the four phone fields
    updatedProps,    \* const updatedProps
    updRetries,      \* safeUpdateContact: retries
    delayMs,         \* safeUpdateContact: delayMs
    phTrace,         \* update requests and waits of the phone run, in order
    phCallbackLog,   \* objects passed to callback so far
    \* --- normalize-phone-number.js: normalizePhoneNumber on its own
    npPc,            \* how many times the function has been applied
    npInput,         \* input
    npResult,        \* normalizePhoneNumber(input)
    npAgain,         \* normalizePhoneNumber applied to that result
    \* --- dedupe-company.js: levenshtein on its own
    levPc,           \* whether the function has been applied
    levA,            \* a
    levB,            \* b
    levAB,           \* levenshtein(a, b)
    levBA            \* levenshtein(b, a)

contactVars ==
    <<pc, subject, contact, results, matches, matchStep, searchLog, mergeCalls,
      callbackLog>>

companyVars ==
    <<coPc, clientShape, inputCompanyId, matchType, enrichedMatches, survivor, duplicatesToCheck, dupIndex,
      mergedCount, mergedFromIds, failedMergeIds, skippedMergeIds, retries,
      delay, coTrace, coCallbackLog>>

phoneVars ==
    <<phPc, phProperties, updatedProps, updRetries, delayMs, phTrace, phCallbackLog,
      npPc, npInput, npResult, npAgain>>

nameVars == <<levPc, levA, levB, levAB, levBA>>

vars == <<prog, contactVars, companyVars, phoneVars, nameVars>>

\* ------------------------------------------------------------------------
\* dedupe-contact.js: records and the store
\* ------------------------------------------------------------------------

\* event.object.objectId
contactId == 1

TimestampField == "hs_analytics_last_timestamp"

ContactFields ==
    {"id", "firstname", "lastname", "email", "phone", "company", TimestampField}

\* a record none of whose properties is set
NoRecord == [f \in ContactFields |-> IF f = "id" THEN "" ELSE NoVal]

MkContact(id, fn, ln, em, ph, co, ts) ==
    [id |-> id, firstname |-> fn, lastname |-> ln, email |-> em, phone |-> ph,
     company |-> co, hs_analytics_last_timestamp |-> ts]

\* property values an enrolled contact is drawn from
FirstNames == {NoVal, <<" ">>, <<"J", " ">>}
LastNames  == {NoVal, <<" ">>, <<"D">>}
Emails     == {NoVal, <<"J", ".", "D", "@", "x", ".", "c">>, <<"j", "d">>, <<"@", "x">>}
Phones     == {NoVal, <<"(", "3", ")", "5">>, <<"-">>}
CompanyNames == {NoVal, <<"A", "c", " ">>}
Timestamps == {NoVal, <<"1">>, <<"2">>}

Subjects ==
    {MkContact(String(contactId), fn, ln, em, ph, co, ts) :
        fn \in FirstNames, ln \in LastNames, em \in Emails, ph \in Phones,
        co \in CompanyNames, ts \in Timestamps}

\* the stored contacts other than the enrolled one
CandidateRec(i) ==
    CASE i % 3 = 2 ->
           MkContact(String(i), <<"J">>, <<"D">>, NoVal, <<"3", "-", "5">>,
                     <<" ", "a", "C">>, <<"2">>)
      [] i % 3 = 0 ->
           MkContact(String(i), <<"J">>, <<"D">>, <<"J", "D", "@", "x", ".", "c">>,
                     NoVal, NoVal, <<"1">>)
      [] OTHER ->
           MkContact(String(i), <<"K">>, <<"D">>,
                     <<"j", ".", "d", "@", "X", ".", "o", "r", "g">>,
                     <<"3", "5">>, NoVal, <<"2">>)

Candidates == {CandidateRec(i) : i \in 2..(NumCandidates + 1)}

Store == {subject} \cup Candidates

\* the stored record with the given id
StoredRecord(id) == CHOOSE r \in Store : r.id = id

\* a record as a response carries it: the id and the requested properties only
Project(r, properties) ==
    [f \in ContactFields |-> IF f = "id" \/ f \in properties THEN r[f] ELSE NoVal]

\* properties requested by getById
GetByIdProperties ==
    {"firstname", "lastname", "email", "phone", "mobilephone", TimestampField,
     "neverbounce_email_check", "hs_email_hard_bounce_reason_enum", "company"}

\* properties requested by getCandidates
CandidateProperties ==
    {"firstname", "lastname", "email", "phone", "mobilephone", TimestampField,
     "company"}

\* properties requested by the free-text searches of steps 5 and 6
QueryProperties ==
    {"firstname", "lastname", "email", "phone", "mobilephone", "company"}

\* searchApi.doSearch: the store answers with any records it holds, carrying
\* the requested properties, or the call fails
DoSearch(properties) ==
    {[ok |-> TRUE, results |-> {Project(r, properties) : r \in S}] : S \in SUBSET Store}
    \cup {[ok |-> FALSE, results |-> {}]}


\* ------------------------------------------------------------------------
\* dedupe-contact.js: normalized subject fields (lines 53-64)
\* ------------------------------------------------------------------------

\* const props = contact?.properties || {}
props == contact

rawPhone == props.phone

\* rawPhone ? rawPhone.replace(/\D/g, '') : null
normalizedPhone == IF Truthy(rawPhone) THEN StripNonDigits(rawPhone) ELSE NoVal

\* props.firstname?.trim() || ''
firstName == IF props.firstname = NoVal THEN <<>> ELSE OrElse(Trim(props.firstname), <<>>)

\* props.lastname?.trim() || ''
lastName == IF props.lastname = NoVal THEN <<>> ELSE OrElse(Trim(props.lastname), <<>>)

\* props.email?.trim().toLowerCase() || ''
email == IF props.email = NoVal THEN <<>> ELSE OrElse(ToLowerCase(Trim(props.email)), <<>>)

\* email.split('@')[0]
emailUsername == Split0(email, "@")

\* (email.split('@')[1] || '').split('.')[0].toLowerCase()
domainRoot == ToLowerCase(Split0(OrElse(Split1(email, "@"), <<>>), "."))

\* (s) => s?.toLowerCase().replace(/\./g, '') || ''
normalizeUsername(s) == IF s = NoVal THEN <<>> ELSE OrElse(StripDots(ToLowerCase(s)), <<>>)

normalizedInputUsername == normalizeUsername(emailUsername)

\* props.company?.trim().toLowerCase() || null
companyText ==
    IF props.company = NoVal THEN NoVal ELSE OrElse(ToLowerCase(Trim(props.company)), NoVal)

\* variant: the run is skipped only when both names are missing
MissingBothNames == ~Truthy(firstName) /\ ~Truthy(lastName)

\* if (!firstName || !lastName)
MissingName == ~Truthy(firstName) \/ ~Truthy(lastName)

\* ------------------------------------------------------------------------
\* dedupe-contact.js: candidate search and the filters of the eight steps
\* ------------------------------------------------------------------------

\* variant: the search results are taken unfiltered
keepAllCandidates(res) == res

\* res.results.filter(c => c.id !== String(contactId))
getCandidates(res) == {c \in res : c.id # String(contactId)}

\* variant: step 1 tests the raw phone value, not its digits
Step1GuardRawPhone == Truthy(rawPhone)

\* Step 1: if (normalizedPhone)
Step1Guard == Truthy(normalizedPhone)

Step1Filter(res) ==
    {c \in getCandidates(res) :
        LET candidatePhone == IF c.phone = NoVal THEN NoVal ELSE StripNonDigits(c.phone)
        IN  candidatePhone = normalizedPhone}

\* variant: step 2 runs whatever step 1 found
Step2GuardEmailOnly == Truthy(email)

\* Step 2: if (matches.length === 0 && email)
Step2Guard == matches = {} /\ Truthy(email)

Step2Filter(res) == getCandidates(res)

\* Step 3: if (matches.length === 0 && emailUsername)
Step3Guard == matches = {} /\ Truthy(emailUsername)

Step3Filter(res) ==
    {c \in getCandidates(res) :
        LET candidateUsername == ToLowerCase(Split0(OrElse(c.email, <<>>), "@"))
        IN  candidateUsername = emailUsername}

\* variant: step 4 runs whatever the earlier steps found
Step4GuardEmailOnly == Truthy(email)

\* Step 4: if (matches.length === 0 && email)
Step4Guard == matches = {} /\ Truthy(email)

Step4Filter(res) == getCandidates(res)

\* Step 5: if (matches.length === 0 && emailUsername && domainRoot)
Step5Guard == matches = {} /\ Truthy(emailUsername) /\ Truthy(domainRoot)

Step5Filter(res) ==
    {c \in res :
        LET cEmail == IF c.email = NoVal THEN <<>> ELSE OrElse(ToLowerCase(c.email), <<>>)
            cUsername == Split0(cEmail, "@")
            cDomainRoot == Split0(OrElse(Split1(cEmail, "@"), <<>>), ".")
        IN  /\ cUsername = emailUsername
            /\ cDomainRoot = domainRoot
            /\ c.id # String(contactId)}

\* Step 6: if (matches.length === 0 && normalizedInputUsername)
Step6Guard == matches = {} /\ Truthy(normalizedInputUsername)

\* variant: the filter of step 6 does not look at the id
Step6FilterAnyId(res) ==
    {c \in res :
        LET cEmail == IF c.email = NoVal THEN <<>> ELSE OrElse(ToLowerCase(c.email), <<>>)
            cUsername == normalizeUsername(Split0(cEmail, "@"))
        IN  cUsername = normalizedInputUsername}

Step6Filter(res) ==
    {c \in res :
        LET cEmail == IF c.email = NoVal THEN <<>> ELSE OrElse(ToLowerCase(c.email), <<>>)
            cUsername == normalizeUsername(Split0(cEmail, "@"))
        IN  /\ cUsername = normalizedInputUsername
            /\ c.id # String(contactId)}

\* Step 7: if (matches.length === 0 && firstName && lastName)
Step7Guard == matches = {} /\ Truthy(firstName) /\ Truthy(lastName)

Step7Filter(res) ==
    {c \in getCandidates(res) :
        LET candidateEmail == c.email
        IN  ~Truthy(candidateEmail) \/ Trim(candidateEmail) = <<>>}

\* Step 8: if (matches.length === 0 && firstName && lastName && companyText)
Step8Guard == matches = {} /\ Truthy(firstName) /\ Truthy(lastName) /\ Truthy(companyText)

Step8Filter(res) ==
    {c \in getCandidates(res) :
        LET candidateCompany ==
                IF c.company = NoVal THEN NoVal ELSE ToLowerCase(Trim(c.company))
        IN  candidateCompany = companyText}

StepNames ==
    <<"name_phone", "name_email", "name_email_username", "email_only",
      "username_domain_root", "normalized_username", "name_no_email", "name_company">>

NumSteps == 8

StepPcs ==
    <<"step1", "step2", "step3", "step4", "step5", "step6", "step7", "step8", "decide">>

\* the position at which step n starts; past the last step, the match handling
StepPc(n) == StepPcs[n]

\* the outputFields object passed to callback
Output(status, step, found, reason, primary, merged) ==
    [status |-> status, matchStep |-> step, matchesFound |-> found,
     reason |-> reason, primaryId |-> primary, mergedId |-> merged]

\* catch (err): callback with status 'error'
ErrorOutput(message) == Output("error", "none", 0, message, "", "")


\* ------------------------------------------------------------------------
\* dedupe-contact.js: actions of exports.main
\* ------------------------------------------------------------------------

\* variant: the catch block ends the run without reporting
CatchSilently(message) ==
    /\ pc' = "done"
    /\ UNCHANGED callbackLog

\* the catch block: the run ends with the error outcome
Catch(message) ==
    /\ pc' = "done"
    /\ callbackLog' = Append(callbackLog, ErrorOutput(message))

\* Step 0 and the validation of the required fields (lines 44-78)
GetById ==
    /\ prog = "contact"
    /\ pc = "getById"
    /\ \/ /\ contact' = Project(subject, GetByIdProperties)
          /\ IF MissingName'
             THEN /\ pc' = "done"
                  /\ callbackLog' =
                        Append(callbackLog,
                               Output("skipped_no_value", "none", 0, "missing_name", "", ""))
             ELSE /\ pc' = StepPc(1)
                  /\ UNCHANGED callbackLog
       \/ /\ Catch("getById failed")
          /\ UNCHANGED contact
    /\ UNCHANGED <<prog, subject, results, matches, matchStep, searchLog, mergeCalls>>
    /\ UNCHANGED <<companyVars, phoneVars, nameVars>>

\* the condition under which step n searches
StepGuard(n) ==
    CASE n = 1 -> Step1Guard
      [] n = 2 -> Step2Guard
      [] n = 3 -> Step3Guard
      [] n = 4 -> Step4Guard
      [] n = 5 -> Step5Guard
      [] n = 6 -> Step6Guard
      [] n = 7 -> Step7Guard
      [] OTHER -> Step8Guard

\* the properties the search of step n requests
StepProperties(n) == IF n \in {5, 6} THEN QueryProperties ELSE CandidateProperties

\* the matches step n keeps of the records its search returned
StepFilter(n, res) ==
    CASE n = 1 -> Step1Filter(res)
      [] n = 2 -> Step2Filter(res)
      [] n = 3 -> Step3Filter(res)
      [] n = 4 -> Step4Filter(res)
      [] n = 5 -> Step5Filter(res)
      [] n = 6 -> Step6Filter(res)
      [] n = 7 -> Step7Filter(res)
      [] OTHER -> Step8Filter(res)

\* one matching step: when its condition holds, one search, the local filter
\* and the assignment of matchStep; a failed search is caught by the run
RunStep(n) ==
    /\ prog = "contact"
    /\ pc = StepPc(n)
    /\ IF StepGuard(n)
       THEN \E res \in DoSearch(StepProperties(n)) :
              IF res.ok
              THEN /\ results' = res.results
                   /\ matches' = StepFilter(n, res.results)
                   /\ matchStep' = IF matches' # {} THEN StepNames[n] ELSE matchStep
                   /\ searchLog' =
                         Append(searchLog, [step |-> n, ok |-> TRUE,
                                            found |-> Cardinality(matches')])
                   /\ pc' = StepPc(n + 1)
                   /\ UNCHANGED callbackLog
              ELSE /\ searchLog' = Append(searchLog, [step |-> n, ok |-> FALSE, found |-> 0])
                   /\ Catch("search failed")
                   /\ UNCHANGED <<results, matches, matchStep>>
       ELSE /\ pc' = StepPc(n + 1)
            /\ UNCHANGED <<results, matches, matchStep, searchLog, callbackLog>>
    /\ UNCHANGED <<prog, subject, contact, mergeCalls>>
    /\ UNCHANGED <<companyVars, phoneVars, nameVars>>

Step1 == RunStep(1)
Step2 == RunStep(2)
Step3 == RunStep(3)
Step4 == RunStep(4)
Step5 == RunStep(5)
Step6 == RunStep(6)
Step7 == RunStep(7)
Step8 == RunStep(8)

\* if (matches.length === 0)
NoMatch == Cardinality(matches) = 0

\* variant: two matches are not yet ambiguous
AmbiguousAboveTwo == Cardinality(matches) > 2

\* if (matches.length > 1)
Ambiguous == Cardinality(matches) > 1

\* (c) => new Date(c.properties?.hs_analytics_last_timestamp || 0).getTime()
getTimestamp(c) ==
    IF Truthy(c[TimestampField]) THEN DateGetTime(c[TimestampField]) ELSE 0

\* { id: String(contactId), properties: contact.properties }
enrolled == [contact EXCEPT !.id = String(contactId)]

\* matches[0]
FirstMatch == CHOOSE c \in matches : TRUE

allCandidates == <<enrolled, FirstMatch>>

\* variant: the comparator sorts the oldest first
CompareAscending(a, b) == getTimestamp(a) - getTimestamp(b)

\* the comparator (a, b) => getTimestamp(b) - getTimestamp(a)
Compare(a, b) == getTimestamp(b) - getTimestamp(a)

\* Array.prototype.sort on two elements: stable, swaps only on a positive result
Sort2(seq) == IF Compare(seq[1], seq[2]) > 0 THEN <<seq[2], seq[1]>> ELSE seq

sorted == Sort2(allCandidates)

primaryId == sorted[1].id

mergeTargetId == sorted[2].id

\* the handling of the match set up to the merge request (lines 211-260)
Decide ==
    /\ prog = "contact"
    /\ pc = "decide"
    /\ IF NoMatch
       THEN /\ pc' = "done"
            /\ callbackLog' =
                  Append(callbackLog,
                         Output("no_match", "none", 0, "no_matching_contact", "", ""))
       ELSE IF Ambiguous
       THEN /\ pc' = "done"
            /\ callbackLog' =
                  Append(callbackLog,
                         Output("ambiguous", matchStep, Cardinality(matches),
                                "too_many_matches", "", ""))
       ELSE IF primaryId = mergeTargetId
       THEN /\ pc' = "done"
            /\ callbackLog' =
                  Append(callbackLog,
                         Output("ambiguous", matchStep, 1, "same_ids", "", ""))
       ELSE /\ pc' = "merge"
            /\ UNCHANGED callbackLog
    /\ UNCHANGED <<prog, subject, contact, results, matches, matchStep, searchLog,
                   mergeCalls>>
    /\ UNCHANGED <<companyVars, phoneVars, nameVars>>

\* answers of the store to a merge request
MergeResponses == {"ok", "429", "500"}

\* variant: the run reports 'merged' whatever the answer
MergeOutputIgnoringResponse(response) ==
    Output("merged", matchStep, 1, "merge_successful", primaryId, mergeTargetId)

\* the outcome of the run after the merge request: axios.post resolves and
\* the run reports 'merged', or it rejects and the catch block reports 'error'
MergeOutput(response) ==
    IF response = "ok"
    THEN Output("merged", matchStep, 1, "merge_successful", primaryId, mergeTargetId)
    ELSE ErrorOutput("Request failed with status code " \o response)

\* the merge request and the end of the run (lines 262-301)
Merge ==
    /\ prog = "contact"
    /\ pc = "merge"
    /\ \E response \in MergeResponses :
          /\ mergeCalls' =
                Append(mergeCalls, [primaryObjectId |-> primaryId,
                                    objectIdToMerge |-> mergeTargetId,
                                    response |-> response])
          /\ callbackLog' = Append(callbackLog, MergeOutput(response))
    /\ pc' = "done"
    /\ UNCHANGED <<prog, subject, contact, results, matches, matchStep, searchLog>>
    /\ UNCHANGED <<companyVars, phoneVars, nameVars>>

ContactInit ==
    /\ pc = "getById"
    /\ contact = NoRecord
    /\ results = {}
    /\ matches = {}
    /\ matchStep = "null"
    /\ searchLog = <<>>
    /\ mergeCalls = <<>>
    /\ callbackLog = <<>>

ContactNext ==
    \/ GetById
    \/ Step1 \/ Step2 \/ Step3 \/ Step4 \/ Step5 \/ Step6 \/ Step7 \/ Step8
    \/ Decide
    \/ Merge


\* ------------------------------------------------------------------------
\* dedupe-company.js: retryWithBackoff
\* ------------------------------------------------------------------------

\* retries = 3
DefaultRetries == 3

\* delay = 500
DefaultDelay == 500

\* the pause after a store call that answered
InterCallDelay == 250

\* variant: one retry more before giving up
ShouldRetryOnceMore(retriesLeft, status) == retriesLeft # -1 /\ status = "429"

\* variant: every failure is retried, not only the rate-limited ones
ShouldRetryAnyFailure(retriesLeft, status) == retriesLeft # 0

\* if (retries && e.response?.status === 429)
ShouldRetry(retriesLeft, status) == retriesLeft # 0 /\ status = "429"

\* variant: the wait does not grow
NextDelayConstant(d) == d

\* delay * 2
NextDelay(d) == d * 2

\* ------------------------------------------------------------------------
\* dedupe-company.js: levenshtein
\* ------------------------------------------------------------------------

\* Math.min of three numbers
Min3(x, y, z) ==
    IF x <= y /\ x <= z THEN x ELSE IF y <= z THEN y ELSE z

\* variant: a differing character is never substituted
levenshteinNoSubstitution(a, b) ==
    LET matrix[i \in 0..Len(b), j \in 0..Len(a)] ==
            IF i = 0 THEN j
            ELSE IF j = 0 THEN i
            ELSE IF b[i] = a[j] THEN matrix[i - 1, j - 1]
            ELSE Min3(matrix[i - 1, j] + 1, matrix[i, j - 1] + 1, matrix[i - 1, j] + 1)
    IN  matrix[Len(b), Len(a)]

\* function levenshtein(a, b): row i of the matrix is for the first i
\* characters of b, column j for the first j characters of a
levenshtein(a, b) ==
    LET matrix[i \in 0..Len(b), j \in 0..Len(a)] ==
            IF i = 0 THEN j
            ELSE IF j = 0 THEN i
            ELSE IF b[i] = a[j] THEN matrix[i - 1, j - 1]
            ELSE Min3(matrix[i - 1, j] + 1, matrix[i, j - 1] + 1, matrix[i - 1, j - 1] + 1)
    IN  matrix[Len(b), Len(a)]

\* the characters of the arguments
Alphabet == {"a", "b", "c"}

\* the strings of at most MaxNameLen characters
Names == UNION {[1..n -> Alphabet] : n \in 0..MaxNameLen}

\* levenshtein(a, b) and levenshtein(b, a)
Levenshtein ==
    /\ prog = "levenshtein"
    /\ levPc = "start"
    /\ levAB' = levenshtein(levA, levB)
    /\ levBA' = levenshtein(levB, levA)
    /\ levPc' = "done"
    /\ UNCHANGED <<levA, levB>>
    /\ UNCHANGED <<prog, contactVars, companyVars, phoneVars>>

\* ------------------------------------------------------------------------
\* dedupe-company.js: records of a resolved group
\* ------------------------------------------------------------------------

\* creation times, distinct and not in id order
CreateDate(i) == (i * 2) % 5

CompanyRec(i) == [id |-> String(i), createdate |-> CreateDate(i)]

\* the enrolled company
InputCompany == CompanyRec(1)

\* values of event.inputFields['hs_object_id']: absent, not a number, a number
InputCompanyIds == {"", "x", InputCompany.id}

\* groups of matched records, in any order of arrival, the enrolled one among them
PermutationsOf(S) ==
    {q \in [1..Cardinality(S) -> S] : \A i, j \in DOMAIN q : i # j => q[i] # q[j]}

MatchedGroups ==
    UNION {PermutationsOf(G \cup {InputCompany}) :
              G \in SUBSET {CompanyRec(i) : i \in 2..MaxCompanies}}

\* the accepted strategy; 'domain' is the one the merge loop distinguishes
MatchTypes == {"domain", "name"}

\* variant: the survivor is the first record the search returned
FirstReturned(group) == group[1]

\* the oldest record of the group
Oldest(group) ==
    CHOOSE c \in {group[i] : i \in DOMAIN group} :
        \A i \in DOMAIN group : c.createdate <= group[i].createdate

\* variant: the survivor is left among the duplicates
WholeGroup(group, keep) == group

\* enrichedMatches.filter(c => c.id !== survivor.id)
OtherThanSurvivor(group, keep) == SelectSeq(group, LAMBDA c : c.id # keep.id)

NoCompany == [id |-> "", createdate |-> 0]

\* entries of coTrace
Call(op, target, response, ms) ==
    [op |-> op, primary |-> survivor.id, target |-> target, response |-> response,
     ms |-> ms]

Sleep(target, ms) == Call("sleep", target, "", ms)

\* the outputFields object passed to callback
CompanyOutput(status) ==
    [status |-> status, match_type |-> matchType, merged_count |-> mergedCount,
     merged_from_ids |-> mergedFromIds, failed_merge_ids |-> failedMergeIds,
     skipped_merge_ids |-> skippedMergeIds, survivor_id |-> survivor.id]

\* ------------------------------------------------------------------------
\* dedupe-company.js: actions of exports.main
\* ------------------------------------------------------------------------

\* !inputCompanyId || isNaN(Number(inputCompanyId))
InvalidCompanyId == inputCompanyId = "" \/ inputCompanyId \notin {IdStrings[i] : i \in DOMAIN IdStrings}

\* Step 1: the validation of the company id (lines 55-70)
CoValidate ==
    /\ prog = "company"
    /\ coPc = "start"
    /\ IF InvalidCompanyId
       THEN /\ coPc' = "done"
            /\ coCallbackLog' =
                  Append(coCallbackLog, CompanyOutput("Missing or invalid company ID"))
       ELSE /\ coPc' = "match"
            /\ UNCHANGED coCallbackLog
    /\ UNCHANGED <<clientShape, inputCompanyId, matchType, enrichedMatches, survivor,
                   duplicatesToCheck, dupIndex, mergedCount, mergedFromIds,
                   failedMergeIds, skippedMergeIds, retries, delay, coTrace>>
    /\ UNCHANGED <<prog, contactVars, phoneVars, nameVars>>

\* Steps 4-10: the matching cascade and the choice of the survivor; a failed
\* search is caught by the outer catch block (lines 129-131)
CoMatch ==
    /\ prog = "company"
    /\ coPc = "match"
    /\ \/ \E type \in MatchTypes, group \in MatchedGroups :
              /\ matchType' = type
              /\ enrichedMatches' = group
              /\ survivor' = Oldest(group)
              /\ coPc' = "select"
              /\ UNCHANGED coCallbackLog
       \/ /\ coPc' = "done"
          /\ coCallbackLog' = Append(coCallbackLog, CompanyOutput("Fatal error: search failed"))
          /\ UNCHANGED <<matchType, enrichedMatches, survivor>>
    /\ UNCHANGED <<clientShape, inputCompanyId, duplicatesToCheck, dupIndex, mergedCount,
                   mergedFromIds, failedMergeIds, skippedMergeIds, retries, delay,
                   coTrace>>
    /\ UNCHANGED <<prog, contactVars, phoneVars, nameVars>>

\* Step 11, before the loop (lines 91-92)
CoStartMerge ==
    /\ prog = "company"
    /\ coPc = "select"
    /\ duplicatesToCheck' = OtherThanSurvivor(enrichedMatches, survivor)
    /\ dupIndex' = 1
    /\ mergedCount' = 0
    /\ mergedFromIds' = <<>>
    /\ failedMergeIds' = <<>>
    /\ skippedMergeIds' = <<>>
    /\ coPc' = "loop"
    /\ UNCHANGED <<clientShape, inputCompanyId, matchType, enrichedMatches, survivor, retries,
                   delay, coTrace, coCallbackLog>>
    /\ UNCHANGED <<prog, contactVars, phoneVars, nameVars>>

\* for (const duplicate of duplicatesToCheck)
duplicate == duplicatesToCheck[dupIndex]

\* values of the hs_is_merged property in a getById response
IsMergedValues == {"true", "false", ""}

\* what the client of a run resolves to: the record itself
\* ({ id, properties }), the shape searchCompanies reads at line 83
\* (result.results), or the record wrapped in a body ({ response, body })
DetailsShapes == {"direct", "body"}

\* details?.body?.properties?.hs_is_merged: undefined unless there is a body
ReadIsMerged(shape, value) == IF shape = "body" THEN value ELSE ""

\* (details?.body?.properties?.hs_is_merged || 'false') === 'true'
IsMerged(value) == (IF value = "" THEN "false" ELSE value) = "true"

\* if (isMerged && matchType !== 'domain')
SkipDuplicate(isMerged) == isMerged /\ matchType # "domain"

\* rejections of a store call
LookupFailures == {"429", "500"}

\* variant: the catch block of the loop records nothing
CaughtSilently(list, id) == list

\* catch (err) { failedMergeIds.push(duplicate.id) }
Caught(list, id) == Append(list, id)

\* variant: a rate-limited answer counts as a merge
ResolvedOrRateLimited(response) == response \in {"ok", "429"}

\* return await fn(): the merge request was answered with success
Resolved(response) == response = "ok"

\* the lookup of hs_is_merged and the skip decision (lines 94-102, 122-124)
CoGetById ==
    /\ prog = "company"
    /\ coPc = "loop"
    /\ dupIndex <= Len(duplicatesToCheck)
    /\ \/ \E value \in IsMergedValues :
            /\ coTrace' = coTrace \o <<Call("getById", duplicate.id, value, 0),
                                       Sleep(duplicate.id, InterCallDelay)>>
            /\ IF SkipDuplicate(IsMerged(ReadIsMerged(clientShape, value)))
               THEN /\ skippedMergeIds' = Append(skippedMergeIds, duplicate.id)
                    /\ dupIndex' = dupIndex + 1
                    /\ UNCHANGED <<coPc, retries, delay>>
               ELSE /\ coPc' = "merge"
                    /\ retries' = DefaultRetries
                    /\ delay' = DefaultDelay
                    /\ UNCHANGED <<skippedMergeIds, dupIndex>>
            /\ UNCHANGED failedMergeIds
       \/ \E failure \in LookupFailures :
            /\ coTrace' = Append(coTrace, Call("getById", duplicate.id, failure, 0))
            /\ failedMergeIds' = Caught(failedMergeIds, duplicate.id)
            /\ dupIndex' = dupIndex + 1
            /\ UNCHANGED <<coPc, retries, delay, skippedMergeIds>>
    /\ UNCHANGED <<clientShape, inputCompanyId, matchType, enrichedMatches, survivor,
                   duplicatesToCheck, mergedCount, mergedFromIds, coCallbackLog>>
    /\ UNCHANGED <<prog, contactVars, phoneVars, nameVars>>

\* one attempt of the merge request inside retryWithBackoff, with what follows
\* it: the bookkeeping of a success, the wait before a retry, or the catch
\* block of the loop (lines 41-52, 105-124)
CoMergeAttempt ==
    /\ prog = "company"
    /\ coPc = "merge"
    /\ \E response \in MergeResponses :
          IF Resolved(response)
          THEN /\ coTrace' = coTrace \o <<Call("merge", duplicate.id, response, 0),
                                          Sleep(duplicate.id, InterCallDelay)>>
               /\ mergedCount' = mergedCount + 1
               /\ mergedFromIds' = Append(mergedFromIds, duplicate.id)
               /\ dupIndex' = dupIndex + 1
               /\ coPc' = "loop"
               /\ UNCHANGED <<failedMergeIds, retries, delay>>
          ELSE IF ShouldRetry(retries, response)
          THEN /\ coTrace' = coTrace \o <<Call("merge", duplicate.id, response, 0),
                                          Call("wait", duplicate.id, "", delay)>>
               /\ retries' = retries - 1
               /\ delay' = NextDelay(delay)
               /\ UNCHANGED <<coPc, dupIndex, mergedCount, mergedFromIds, failedMergeIds>>
          ELSE /\ coTrace' = Append(coTrace, Call("merge", duplicate.id, response, 0))
               /\ failedMergeIds' = Caught(failedMergeIds, duplicate.id)
               /\ dupIndex' = dupIndex + 1
               /\ coPc' = "loop"
               /\ UNCHANGED <<mergedCount, mergedFromIds, retries, delay>>
    /\ UNCHANGED <<clientShape, inputCompanyId, matchType, enrichedMatches, survivor,
                   duplicatesToCheck, skippedMergeIds, coCallbackLog>>
    /\ UNCHANGED <<prog, contactVars, phoneVars, nameVars>>

\* Step 12: the results are returned
CoReturn ==
    /\ prog = "company"
    /\ coPc = "loop"
    /\ dupIndex > Len(duplicatesToCheck)
    /\ coPc' = "done"
    /\ coCallbackLog' = Append(coCallbackLog, CompanyOutput("Success"))
    /\ UNCHANGED <<clientShape, inputCompanyId, matchType, enrichedMatches, survivor,
                   duplicatesToCheck, dupIndex, mergedCount, mergedFromIds,
                   failedMergeIds, skippedMergeIds, retries, delay, coTrace>>
    /\ UNCHANGED <<prog, contactVars, phoneVars, nameVars>>

CompanyInit ==
    /\ coPc = "start"
    /\ matchType = ""
    /\ enrichedMatches = <<>>
    /\ survivor = NoCompany
    /\ duplicatesToCheck = <<>>
    /\ dupIndex = 1
    /\ mergedCount = 0
    /\ mergedFromIds = <<>>
    /\ failedMergeIds = <<>>
    /\ skippedMergeIds = <<>>
    /\ retries = DefaultRetries
    /\ delay = DefaultDelay
    /\ coTrace = <<>>
    /\ coCallbackLog = <<>>

CompanyNext ==
    \/ CoValidate
    \/ CoMatch
    \/ CoStartMerge
    \/ CoGetById
    \/ CoMergeAttempt
    \/ CoReturn

\* ------------------------------------------------------------------------
\* normalize-phone-number.js: normalizePhoneNumber
\* ------------------------------------------------------------------------

\* variant: every accepted input gets the country code in front
normalizePhoneNumberPrefixingAll(input) ==
    LET cleaned == Trim(StripNonDigits(input))
    IN  IF Len(cleaned) = 10 \/ (Len(cleaned) = 11 /\ cleaned[1] = "1")
        THEN <<"+", "1">> \o cleaned
        ELSE NoVal

\* function normalizePhoneNumber(input); null is NoVal
normalizePhoneNumber(input) ==
    LET cleaned == Trim(StripNonDigits(input))
    IN  IF Len(cleaned) = 10 THEN <<"+", "1">> \o cleaned
        ELSE IF Len(cleaned) = 11 /\ cleaned[1] = "1" THEN <<"+">> \o cleaned
        ELSE NoVal

\* the digits of the README example, without and with the country code
National == <<"3", "0", "5", "3", "9", "1", "4", "4", "1", "4">>

WithCountry == <<"1">> \o National

\* the first n digits of base repeated
Cycle(base, n) == [i \in 1..n |-> base[((i - 1) % Len(base)) + 1]]

DigitStrings == {Cycle(base, n) : base \in {National, WithCountry}, n \in 0..MaxPhoneDigits}

\* (305) 391-4414
Punctuated(d) ==
    IF Len(d) < 7 THEN d
    ELSE <<"(">> \o SubSeq(d, 1, 3) \o <<")", " ">> \o SubSeq(d, 4, 6) \o <<"-">>
            \o SubSeq(d, 7, Len(d))

\* inputs of normalizePhoneNumber: digits alone, with a leading +, punctuated,
\* and surrounded by blanks
PhoneInputs ==
    UNION {{d, <<"+">> \o d, Punctuated(d), <<" ">> \o d \o <<" ">>} : d \in DigitStrings}

\* normalizePhoneNumber(input)
NormalizeOnce ==
    /\ prog = "normalizePhoneNumber"
    /\ npPc = "start"
    /\ npResult' = normalizePhoneNumber(npInput)
    /\ npPc' = "once"
    /\ UNCHANGED <<npInput, npAgain>>
    /\ UNCHANGED <<phPc, phProperties, updatedProps, updRetries, delayMs, phTrace,
                   phCallbackLog>>
    /\ UNCHANGED <<prog, contactVars, companyVars, nameVars>>

\* normalizePhoneNumber applied to a result of its own
NormalizeAgain ==
    /\ prog = "normalizePhoneNumber"
    /\ npPc = "once"
    /\ npResult # NoVal
    /\ npAgain' = normalizePhoneNumber(npResult)
    /\ npPc' = "twice"
    /\ UNCHANGED <<npInput, npResult>>
    /\ UNCHANGED <<phPc, phProperties, updatedProps, updRetries, delayMs, phTrace,
                   phCallbackLog>>
    /\ UNCHANGED <<prog, contactVars, companyVars, nameVars>>

\* ------------------------------------------------------------------------
\* normalize-phone-number.js: exports.main and safeUpdateContact
\* ------------------------------------------------------------------------

PHONE_FIELDS == <<"phone", "mobilephone", "hq_phone_number", "alt_phone_number">>

PhoneFieldNames == {PHONE_FIELDS[i] : i \in DOMAIN PHONE_FIELDS}

\* retries = 3
UpdateRetries == 3

\* delayMs = 1000
UpdateDelayMs == 1000

\* values of a phone property: absent, empty, to be normalized, already
\* normalized, not a number that can be normalized
PhoneSamples ==
    {NoVal, <<>>, Punctuated(National), <<"+">> \o WithCountry, Cycle(National, 7)}

\* an object with none of the phone fields
NoProps == [f \in PhoneFieldNames |-> NoVal]

\* variant: every normalized value is written back
DiffersOrNot(normalized, rawValue) == TRUE

\* normalized !== rawValue
Differs(normalized, rawValue) == normalized # rawValue

\* the for loop over PHONE_FIELDS: the value put in updatedProps for a field,
\* NoVal when the field gets no key
UpdatedValue(rawValue) ==
    LET normalized == normalizePhoneNumber(rawValue)
    IN  IF ~Truthy(rawValue) THEN NoVal
        ELSE IF ~Truthy(normalized) THEN NoVal
        ELSE IF Differs(normalized, rawValue) THEN normalized
        ELSE NoVal

NormalizeFields(fetched) == [f \in PhoneFieldNames |-> UpdatedValue(fetched[f])]

\* Object.keys(updatedProps)
Keys(obj) == {f \in PhoneFieldNames : obj[f] # NoVal}

\* entries of phTrace
PhCall(op, response, ms) ==
    [op |-> op, payload |-> updatedProps, response |-> response, ms |-> ms]

\* callback({ outputFields: updatedProps })
PhOutput(fields) == [kind |-> "outputFields", outputFields |-> fields, error |-> ""]

\* callback({ error: ... })
PhError(message) == [kind |-> "error", outputFields |-> NoProps, error |-> message]

\* answers of the store to getById: the record, an object without
\* properties, a rejection
GetByIdAnswers == {"record", "malformed", "rejected"}

\* the fetch of the phone fields, the loop over them and, when nothing is
\* to be updated, the end of the run (lines 33-76)
PhGetById ==
    /\ prog = "phone"
    /\ phPc = "getById"
    /\ \E answer \in GetByIdAnswers :
          CASE answer = "record" ->
                  /\ updatedProps' = NormalizeFields(phProperties)
                  /\ IF Cardinality(Keys(updatedProps')) > 0
                     THEN /\ phPc' = "update"
                          /\ UNCHANGED phCallbackLog
                     ELSE /\ phPc' = "done"
                          /\ phCallbackLog' = Append(phCallbackLog, PhOutput(updatedProps'))
            [] answer = "malformed" ->
                  /\ phPc' = "done"
                  /\ phCallbackLog' =
                        Append(phCallbackLog, PhError("Contact data is missing or malformed"))
                  /\ UNCHANGED updatedProps
            [] OTHER ->
                  /\ phPc' = "done"
                  /\ phCallbackLog' = Append(phCallbackLog, PhError("getById failed"))
                  /\ UNCHANGED updatedProps
    /\ UNCHANGED <<phProperties, updRetries, delayMs, phTrace>>
    /\ UNCHANGED <<npPc, npInput, npResult, npAgain>>
    /\ UNCHANGED <<prog, contactVars, companyVars, nameVars>>

\* answers of the store to an update request
UpdateResponses == {"ok", "429", "500"}

\* variant: any failure is retried
RetryUpdateOnAnyError(statusCode, retriesLeft) == retriesLeft > 0

\* err.statusCode === 429 && retries > 0
RetryUpdate(statusCode, retriesLeft) == statusCode = "429" /\ retriesLeft > 0

\* one attempt of safeUpdateContact and what follows it: the end of the run
\* with the outputFields, the wait before the next attempt, or the catch
\* block of exports.main (lines 69-81 and 97-109)
PhUpdate ==
    /\ prog = "phone"
    /\ phPc = "update"
    /\ \E response \in UpdateResponses :
          IF response = "ok"
          THEN /\ phTrace' = Append(phTrace, PhCall("update", response, 0))
               /\ phPc' = "done"
               /\ phCallbackLog' = Append(phCallbackLog, PhOutput(updatedProps))
               /\ UNCHANGED <<updRetries, delayMs>>
          ELSE IF RetryUpdate(response, updRetries)
          THEN /\ phTrace' = phTrace \o <<PhCall("update", response, 0),
                                           PhCall("wait", "", delayMs)>>
               /\ updRetries' = updRetries - 1
               /\ delayMs' = delayMs * 2
               /\ UNCHANGED <<phPc, phCallbackLog>>
          ELSE /\ phTrace' = Append(phTrace, PhCall("update", response, 0))
               /\ phPc' = "done"
               /\ phCallbackLog' =
                     Append(phCallbackLog,
                            PhError("HTTP-Code: " \o response))
               /\ UNCHANGED <<updRetries, delayMs>>
    /\ UNCHANGED <<phProperties, updatedProps>>
    /\ UNCHANGED <<npPc, npInput, npResult, npAgain>>
    /\ UNCHANGED <<prog, contactVars, companyVars, nameVars>>

PhoneInit ==
    /\ phPc = "getById"
    /\ updatedProps = NoProps
    /\ updRetries = UpdateRetries
    /\ delayMs = UpdateDelayMs
    /\ phTrace = <<>>
    /\ phCallbackLog = <<>>
    /\ npPc = "start"
    /\ npResult = NoVal
    /\ npAgain = NoVal

PhoneNext ==
    \/ NormalizeOnce
    \/ NormalizeAgain
    \/ PhGetById
    \/ PhUpdate

\* ------------------------------------------------------------------------
\* The specification: one run of one of the scripts
\* ------------------------------------------------------------------------

Programs == {"contact", "company", "phone", "normalizePhoneNumber", "levenshtein"}

Init ==
    /\ prog \in Programs
    /\ ContactInit
    /\ CompanyInit
    /\ PhoneInit
    /\ IF prog = "contact" THEN subject \in Subjects ELSE subject = NoRecord
    /\ IF prog = "company"
       THEN inputCompanyId \in InputCompanyIds /\ clientShape \in DetailsShapes
       ELSE inputCompanyId = "" /\ clientShape = "direct"
    /\ IF prog = "phone"
       THEN phProperties \in [PhoneFieldNames -> PhoneSamples]
       ELSE phProperties = NoProps
    /\ IF prog = "normalizePhoneNumber" THEN npInput \in PhoneInputs ELSE npInput = <<>>
    /\ levPc = "start"
    /\ levAB = 0
    /\ levBA = 0
    /\ IF prog = "levenshtein"
       THEN levA \in Names /\ levB \in Names
       ELSE levA = <<>> /\ levB = <<>>

Next == ContactNext \/ CompanyNext \/ PhoneNext \/ Levenshtein

Spec == Init /\ [][Next]_vars


\* a contact run alone
ContactRun == Init /\ prog = "contact"

\* the positions of a contact run
ContactPcs == {"getById", "merge", "done"} \cup {StepPcs[i] : i \in DOMAIN StepPcs}

\* the runtime resumes the run: every call the run awaits settles, and the
\* run moves on from the position it was waiting at. Every action of the run
\* is guarded by its position alone and leaves that position.
Resume == pc # "done" /\ \E p \in ContactPcs : p # pc /\ pc' = p

FairContactSpec == ContactRun /\ [][ContactNext]_vars /\ WF_pc(Resume)


\* ------------------------------------------------------------------------
\* Properties of the contact dedupe run
\* ------------------------------------------------------------------------

\* the outcome the run reported
Reported == callbackLog[Len(callbackLog)]

\* the steps for which a search was issued
SearchedSteps == {searchLog[i].step : i \in DOMAIN searchLog}

\* the subject fields step n requires are present (the names always are)
FieldsPresent(n) ==
    CASE n = 1 -> normalizedPhone \notin {NoVal, <<>>}
      [] n = 2 -> email # <<>>
      [] n = 3 -> emailUsername # <<>>
      [] n = 4 -> email # <<>>
      [] n = 5 -> emailUsername # <<>> /\ domainRoot # <<>>
      [] n = 6 -> normalizedInputUsername # <<>>
      [] n = 7 -> TRUE
      [] OTHER -> companyText \notin {NoVal, <<>>}

\* C1: the searches are issued in the order of the strategies 1..8, none of
\* the strategies whose fields are present is passed over, and a search whose
\* filtered set is non-empty is the last search of the run.
C1_SearchesStopAtFirstMatch ==
    /\ \A i, j \in DOMAIN searchLog : i < j => searchLog[i].step < searchLog[j].step
    /\ \A i \in DOMAIN searchLog : searchLog[i].found > 0 => i = Len(searchLog)
    /\ \A i \in DOMAIN searchLog : \A n \in 1..(searchLog[i].step - 1) :
            FieldsPresent(n) => n \in SearchedSteps
    /\ (pc = "decide" /\ matches = {}) =>
            \A n \in 1..NumSteps : FieldsPresent(n) => n \in SearchedSteps

\* a run that searched at least twice, found matches at a step before the
\* seventh and issued no search after it
C1_Witness ==
    /\ pc = "decide"
    /\ Len(searchLog) >= 2
    /\ searchLog[Len(searchLog)].found > 0
    /\ searchLog[Len(searchLog)].step < 7

\* C2: a merge request is issued only with exactly one match; with no match
\* after all strategies the run ends no_match, with two or more matches it
\* ends ambiguous, both without a merge request; a run issues at most one
\* merge request.
C2_MergeOnlyOnSingleMatch ==
    /\ Len(mergeCalls) <= 1
    /\ mergeCalls # <<>> => Cardinality(matches) = 1
    /\ (pc = "done" /\ Cardinality(matches) >= 2) =>
            /\ Reported.status = "ambiguous"
            /\ Reported.reason = "too_many_matches"
            /\ mergeCalls = <<>>
    /\ (pc = "done" /\ matches = {} /\ Reported.status \notin {"error", "skipped_no_value"}) =>
            /\ Reported.status = "no_match"
            /\ mergeCalls = <<>>
    /\ (pc = "done" /\ Reported.status \in {"no_match", "ambiguous"}) => mergeCalls = <<>>

\* a run that ended ambiguous on two or more matches
C2_Witness ==
    /\ pc = "done"
    /\ Cardinality(matches) >= 2
    /\ Reported.status = "ambiguous"

\* the trimmed value of a name property is empty
EmptyName(v) == v = NoVal \/ Trim(v) = <<>>

\* C3: an enrolled contact whose trimmed first or last name is empty ends the
\* run skipped with reason missing_name, with no search and no merge request.
C3_MissingNameSkipped ==
    (prog = "contact" /\ contact.id # ""
        /\ (EmptyName(contact.firstname) \/ EmptyName(contact.lastname))) =>
        /\ pc = "done"
        /\ Len(callbackLog) = 1
        /\ Reported.status = "skipped_no_value"
        /\ Reported.reason = "missing_name"
        /\ searchLog = <<>>
        /\ mergeCalls = <<>>

\* a skipped run of a contact whose first name is blank and whose last name is set
C3_Witness ==
    /\ pc = "done"
    /\ contact.firstname = <<" ">>
    /\ contact.lastname = <<"D">>
    /\ Reported.reason = "missing_name"

\* the last engagement time of a record, a missing one counting as 0
EngagementTime(r) ==
    IF r[TimestampField] \in {NoVal, <<>>} THEN 0 ELSE DateGetTime(r[TimestampField])

\* C4: with exactly one match, the primary of the merge request is whichever
\* of the enrolled contact and the matched contact has the larger
\* hs_analytics_last_timestamp (a missing one counting as 0), the other is
\* the record merged away, and the two are distinct.
C4_SurvivorIsMostRecent ==
    \A i \in DOMAIN mergeCalls :
        LET call == mergeCalls[i]
            candidate == StoredRecord(FirstMatch.id)
            own == String(contactId)
        IN  /\ {call.primaryObjectId, call.objectIdToMerge} = {own, candidate.id}
            /\ call.primaryObjectId # call.objectIdToMerge
            /\ EngagementTime(candidate) > EngagementTime(subject) =>
                    call.primaryObjectId = candidate.id
            /\ EngagementTime(subject) > EngagementTime(candidate) =>
                    call.primaryObjectId = own

C6_MatchesExcludeEnrolled ==
    \A c \in matches : c.id # String(contactId)

\* a search that returned the enrolled contact among others and left matches
C6_Witness ==
    /\ \E r \in results : r.id = String(contactId)
    /\ matches # {}
    /\ searchLog # <<>>
    /\ searchLog[Len(searchLog)].step \in {1, 2, 3, 4, 7, 8}


\* ------------------------------------------------------------------------
\* Properties of the merge requests of both runs
\* ------------------------------------------------------------------------

\* the merge requests of the company run, in order
CoMergeCalls == SelectSeq(coTrace, LAMBDA e : e.op = "merge")

\* the answers to the merge requests for target t, in order
MergeAnswers(t) ==
    LET calls == SelectSeq(coTrace, LAMBDA e : e.op = "merge" /\ e.target = t)
    IN  [i \in DOMAIN calls |-> calls[i].response]

\* the waits before the retries of the merge for target t, in order
RetryWaits(t) ==
    LET waits == SelectSeq(coTrace, LAMBDA e : e.op = "wait" /\ e.target = t)
    IN  [i \in DOMAIN waits |-> waits[i].ms]

Elements(q) == {q[i] : i \in DOMAIN q}

DuplicateIds == {duplicatesToCheck[i].id : i \in DOMAIN duplicatesToCheck}

\* the merge for target t is still being attempted
InProgress(t) == coPc = "merge" /\ duplicate.id = t

\* C7: no merge request has the same id on both sides: in the contact run the
\* primary differs from the record merged away, a single match with the
\* enrolled id ends the run ambiguous/same_ids without a merge request, and
\* in the company run the survivor is never a record merged away.
C7_NoSelfMerge ==
    /\ \A i \in DOMAIN mergeCalls :
            mergeCalls[i].primaryObjectId # mergeCalls[i].objectIdToMerge
    /\ (pc = "done" /\ Cardinality(matches) = 1 /\ primaryId = mergeTargetId) =>
            /\ Reported.reason = "same_ids"
            /\ mergeCalls = <<>>
    /\ \A i \in DOMAIN CoMergeCalls :
            /\ CoMergeCalls[i].primary = survivor.id
            /\ CoMergeCalls[i].target # survivor.id
    /\ coPc \in {"loop", "merge"} => survivor.id \notin DuplicateIds

\* a company run that posted a merge request for a group in which the
\* survivor is not the first record the search returned
C7_Witness ==
    /\ CoMergeCalls # <<>>
    /\ enrichedMatches[1].id # survivor.id
    /\ Len(enrichedMatches) = MaxCompanies

\* C8: a merge answered rate-limited twice and then accepted is attempted
\* three times, with waits of 500 ms and 1000 ms before the retries, and the
\* target is recorded as merged, merged_count counting it.
C8_RetryTwiceThenMerged ==
    \A t \in DuplicateIds :
        MergeAnswers(t) = <<"429", "429", "ok">> =>
            /\ RetryWaits(t) = <<500, 1000>>
            /\ ~InProgress(t)
            /\ t \in Elements(mergedFromIds)
            /\ t \notin Elements(failedMergeIds) \cup Elements(skippedMergeIds)
            /\ mergedCount = Len(mergedFromIds)
            /\ mergedCount = Cardinality(Elements(mergedFromIds))

\* a target merged at the third attempt
C8_Witness ==
    \E t \in DuplicateIds :
        /\ MergeAnswers(t) = <<"429", "429", "ok">>
        /\ t \in Elements(mergedFromIds)

\* C9 as stated: at most 3 merge requests are issued for one target.
C9_AtMostThreeAttempts ==
    \A t \in DuplicateIds : Len(MergeAnswers(t)) <= 3

\* C9: at most 4 merge requests are issued for one target (the first attempt
\* and 3 retries); a target every merge request of which is answered
\* rate-limited gets exactly 4 requests, with waits of 500, 1000 and 2000 ms
\* between them, and is then recorded as failed.
C9_AtMostFourAttempts ==
    \A t \in DuplicateIds :
        /\ Len(MergeAnswers(t)) <= DefaultRetries + 1
        /\ (MergeAnswers(t) # <<>> /\ ~InProgress(t)
                /\ \A i \in DOMAIN MergeAnswers(t) : MergeAnswers(t)[i] = "429") =>
              /\ Len(MergeAnswers(t)) = 4
              /\ RetryWaits(t) = <<500, 1000, 2000>>
              /\ t \in Elements(failedMergeIds)
              /\ t \notin Elements(mergedFromIds)

\* a target given up after four rate-limited answers
C9_Witness ==
    \E t \in DuplicateIds :
        /\ MergeAnswers(t) = <<"429", "429", "429", "429">>
        /\ t \in Elements(failedMergeIds)

\* C10 as stated: the contact run does not end right after a single
\* rate-limited merge request; the request is tried again.
C10_ContactMergeRetried ==
    (pc = "done" /\ mergeCalls # <<>> /\ mergeCalls[1].response = "429") =>
        Len(mergeCalls) > 1

\* C10: in the contact run the merge request is posted once and never
\* retried: an accepted request ends the run merged, and any rejected one,
\* rate-limited included, ends it with status error and the message of the
\* failure.
C10_ContactMergeNotRetried ==
    mergeCalls # <<>> =>
        /\ Len(mergeCalls) = 1
        /\ pc = "done"
        /\ Len(callbackLog) = 1
        /\ IF mergeCalls[1].response = "ok"
           THEN /\ Reported.status = "merged"
                /\ Reported.primaryId = mergeCalls[1].primaryObjectId
                /\ Reported.mergedId = mergeCalls[1].objectIdToMerge
           ELSE /\ Reported.status = "error"
                /\ Reported.reason =
                      "Request failed with status code " \o mergeCalls[1].response

\* a contact run ended with status error by one rate-limited merge request
C10_Witness ==
    /\ pc = "done"
    /\ Len(mergeCalls) = 1
    /\ mergeCalls[1].response = "429"
    /\ Reported.status = "error"


\* ------------------------------------------------------------------------
\* Properties of the company merge loop
\* ------------------------------------------------------------------------

\* the company run ended in the outer catch block
FatalOutcome ==
    /\ coCallbackLog # <<>>
    /\ coCallbackLog[Len(coCallbackLog)].status = "Fatal error: search failed"

\* the ids recorded in one of the three outcome lists
RecordedIds ==
    Elements(mergedFromIds) \cup Elements(failedMergeIds) \cup Elements(skippedMergeIds)

\* C11: a merge request that fails with an error other than rate-limited is
\* not tried again, its target is recorded as failed, and the loop goes on:
\* the run ends with every duplicate recorded in one of the lists and not in
\* the fatal-error outcome.
C11_OtherErrorFailsTargetOnly ==
    /\ \A t \in DuplicateIds :
          /\ \A i \in DOMAIN MergeAnswers(t) :
                MergeAnswers(t)[i] = "500" =>
                    /\ i = Len(MergeAnswers(t))
                    /\ ~InProgress(t)
                    /\ t \in Elements(failedMergeIds)
                    /\ t \notin Elements(mergedFromIds)
          /\ (MergeAnswers(t) # <<>> /\ MergeAnswers(t)[1] = "500") =>
                Len(MergeAnswers(t)) = 1
    /\ (coPc = "done" /\ \E t \in DuplicateIds : "500" \in Elements(MergeAnswers(t))) =>
          /\ ~FatalOutcome
          /\ Len(coCallbackLog) = 1
          /\ DuplicateIds = RecordedIds

\* a merge request failed with another error for a target, and the lookup
\* for the next duplicate followed
C11_Witness ==
    \E i, j \in DOMAIN coTrace :
        /\ i < j
        /\ coTrace[i].op = "merge"
        /\ coTrace[i].response = "500"
        /\ coTrace[j].op = "getById"
        /\ coTrace[j].target # coTrace[i].target


\* the lookups of hs_is_merged that answered
Lookups == SelectSeq(coTrace, LAMBDA e : e.op = "getById" /\ e.response \in IsMergedValues)

\* C12: a duplicate whose hs_is_merged property is true is recorded as
\* skipped and gets no merge request, unless the match type is 'domain', in
\* which case it gets a merge request; a duplicate not marked as merged is
\* never skipped.
C12_MergedDuplicatesSkipped ==
    \A i \in DOMAIN Lookups :
        LET t == Lookups[i].target
        IN  IF Lookups[i].response = "true" /\ matchType # "domain"
            THEN /\ t \in Elements(skippedMergeIds)
                 /\ MergeAnswers(t) = <<>>
                 /\ ~InProgress(t)
            ELSE /\ t \notin Elements(skippedMergeIds)
                 /\ MergeAnswers(t) # <<>> \/ InProgress(t)


\* ------------------------------------------------------------------------
\* Properties of the company survivor
\* ------------------------------------------------------------------------

GroupIds == {enrichedMatches[i].id : i \in DOMAIN enrichedMatches}

\* the survivor and the merge targets have been chosen
Selected == prog = "company" /\ coPc \in {"loop", "merge"}

Pauses == {"sleep", "wait"}

\* C15: after each merge request, answered with success or with a failure,
\* the next step of the run is a delay: no store call follows a merge
\* request directly.
C15_DelayAfterEachMergeAttempt ==
    \A i \in DOMAIN coTrace :
        (coTrace[i].op = "merge" /\ i < Len(coTrace)) => coTrace[i + 1].op \in Pauses


\* ------------------------------------------------------------------------
\* Properties of the end of the contact run
\* ------------------------------------------------------------------------

\* the statuses of a contact run; 'skipped_no_value' is the skipped outcome
DefinedStatuses == {"no_match", "ambiguous", "merged", "skipped_no_value", "error"}

\* the run ended in the error outcome with the given message
EndedInError(message) ==
    /\ pc = "done"
    /\ Len(callbackLog) = 1
    /\ Reported = ErrorOutput(message)

\* the callback is invoked once, when the run ends, with a defined status,
\* and a call that failed ended the run in the error outcome
OneCallback ==
    /\ Len(callbackLog) <= 1
    /\ pc = "done" <=> Len(callbackLog) = 1
    /\ \A i \in DOMAIN callbackLog : callbackLog[i].status \in DefinedStatuses
    /\ (pc = "done" /\ contact = NoRecord) => EndedInError("getById failed")
    /\ \A i \in DOMAIN searchLog :
          ~searchLog[i].ok => i = Len(searchLog) /\ EndedInError("search failed")
    /\ \A i \in DOMAIN mergeCalls :
          mergeCalls[i].response # "ok" =>
              EndedInError("Request failed with status code " \o mergeCalls[i].response)
    /\ (callbackLog # <<>> /\ Reported.status = "error") =>
          \/ contact = NoRecord
          \/ \E i \in DOMAIN searchLog : ~searchLog[i].ok
          \/ \E i \in DOMAIN mergeCalls : mergeCalls[i].response # "ok"

\* C14: every contact run ends, and it ends by invoking the callback exactly
\* once with a status of the defined set; a failure of the record fetch, of
\* a search or of the merge request ends the run with status error and the
\* message of the failure.
C14_EndsWithOneCallback == []OneCallback /\ <>[](pc = "done" /\ Len(callbackLog) = 1)

\* a run ended by a search that failed after an earlier search had answered
C14_Witness ==
    /\ EndedInError("search failed")
    /\ Len(searchLog) >= 2


\* ------------------------------------------------------------------------
\* Properties of the phone normalizer
\* ------------------------------------------------------------------------

\* C16: an input with exactly 10 digits yields +1 followed by the digits, an
\* input with exactly 11 digits of which the first is 1 yields + followed by
\* the digits, every other input yields no value, and the function applied
\* to a result of its own returns that result.
C16_NormalizeShapesAndIdempotent ==
    (prog = "normalizePhoneNumber" /\ npPc # "start") =>
        LET d == StripNonDigits(npInput)
            tenDigits == Len(d) = 10
            elevenWithOne == Len(d) = 11 /\ d[1] = "1"
        IN  /\ tenDigits => npResult = <<"+", "1">> \o d
            /\ elevenWithOne => npResult = <<"+">> \o d
            /\ (~tenDigits /\ ~elevenWithOne) => npResult = NoVal
            /\ npPc = "twice" => npAgain = npResult

\* the README example with its country code, normalized and normalized again
C16_Witness ==
    /\ npPc = "twice"
    /\ npInput = WithCountry
    /\ npResult = <<"+">> \o WithCountry
    /\ npAgain = npResult

\* the field holds a value that normalizes to a different value
NeedsUpdate(f) ==
    /\ Truthy(phProperties[f])
    /\ normalizePhoneNumber(phProperties[f]) # NoVal
    /\ normalizePhoneNumber(phProperties[f]) # phProperties[f]

FieldsToUpdate == {f \in PhoneFieldNames : NeedsUpdate(f)}

\* the object holds exactly the fields to update, each with its normalized value
ExactlyTheChanges(obj) ==
    /\ Keys(obj) = FieldsToUpdate
    /\ \A f \in FieldsToUpdate : obj[f] = normalizePhoneNumber(phProperties[f])

UpdateCalls == SelectSeq(phTrace, LAMBDA e : e.op = "update")

\* getById answered with the record
Fetched ==
    \/ phPc = "update"
    \/ phTrace # <<>>
    \/ \E i \in DOMAIN phCallbackLog : phCallbackLog[i].kind = "outputFields"

\* C17: once the record is fetched, an update request is issued if and only
\* if some phone field holds a non-empty value whose normalized value
\* differs from it; the payload of every update request and the
\* outputFields reported hold exactly those fields with their normalized
\* values, and no field that is empty, cannot be normalized or is already
\* normalized.
C17_UpdateOnlyWhatChanges ==
    (prog = "phone" /\ Fetched) =>
        /\ (phPc = "update" \/ UpdateCalls # <<>>) <=> FieldsToUpdate # {}
        /\ \A i \in DOMAIN UpdateCalls : ExactlyTheChanges(UpdateCalls[i].payload)
        /\ \A i \in DOMAIN phCallbackLog :
              phCallbackLog[i].kind = "outputFields" =>
                  ExactlyTheChanges(phCallbackLog[i].outputFields)
        /\ phPc = "done" /\ FieldsToUpdate = {} =>
              phCallbackLog = <<PhOutput(NoProps)>>

\* one field to normalize next to an already normalized one, one that
\* cannot be normalized and an absent one: the update holds the first only
C17_Witness ==
    /\ phPc = "done"
    /\ phProperties.phone = Punctuated(National)
    /\ phProperties.mobilephone = <<"+">> \o WithCountry
    /\ phProperties.hq_phone_number = Cycle(National, 7)
    /\ phProperties.alt_phone_number = NoVal
    /\ Len(UpdateCalls) = 1
    /\ Keys(UpdateCalls[1].payload) = {"phone"}
    /\ phCallbackLog = <<PhOutput(UpdateCalls[1].payload)>>


\* the answers to the update requests, in order
UpdateAnswers == [i \in DOMAIN UpdateCalls |-> UpdateCalls[i].response]

\* the waits before the retries of the update, in order
UpdateWaits ==
    LET waits == SelectSeq(phTrace, LAMBDA e : e.op = "wait")
    IN  [i \in DOMAIN waits |-> waits[i].ms]

\* the phone run ended with callback({ error }), outputFields never reported
EndedWithErrorCallback ==
    /\ phPc = "done"
    /\ Len(phCallbackLog) = 1
    /\ phCallbackLog[1].kind = "error"

\* C18: an update request answered with 429 is tried again after a wait
\* that starts at 1000 ms and doubles, for at most 3 retries; when all 4
\* attempts are answered with 429 the run ends with the error callback and
\* no outputFields; an update answered with another error is the last
\* attempt and the run ends with the error callback.
C18_UpdateRetriedOnRateLimitOnly ==
    prog = "phone" =>
        /\ Len(UpdateAnswers) <= UpdateRetries + 1
        /\ \A i \in DOMAIN UpdateWaits : UpdateWaits[i] = 1000 * (2 ^ (i - 1))
        /\ \A i \in DOMAIN UpdateAnswers :
              /\ (UpdateAnswers[i] = "429" /\ i <= UpdateRetries) =>
                    /\ Len(UpdateWaits) >= i
                    /\ i < Len(UpdateAnswers) \/ phPc = "update"
              /\ (UpdateAnswers[i] = "429" /\ i > UpdateRetries) => EndedWithErrorCallback
              /\ UpdateAnswers[i] = "500" =>
                    /\ i = Len(UpdateAnswers)
                    /\ Len(UpdateWaits) = i - 1
                    /\ EndedWithErrorCallback
              /\ UpdateAnswers[i] = "ok" =>
                    /\ i = Len(UpdateAnswers)
                    /\ phPc = "done"
                    /\ phCallbackLog = <<PhOutput(UpdateCalls[i].payload)>>
        /\ Len(UpdateWaits) <= Len(UpdateAnswers)

\* every attempt was answered with 429: four requests, three waits, the error callback
C18_Witness ==
    /\ UpdateAnswers = <<"429", "429", "429", "429">>
    /\ UpdateWaits = <<1000, 2000, 4000>>
    /\ EndedWithErrorCallback


\* ------------------------------------------------------------------------
\* Properties of levenshtein
\* ------------------------------------------------------------------------

\* the unit-cost edit distance: the cheapest way to turn s into t by deleting
\* a character, inserting one, or replacing one by another
RECURSIVE EditDistance(_, _)
EditDistance(s, t) ==
    IF s = <<>> THEN Len(t)
    ELSE IF t = <<>> THEN Len(s)
    ELSE Min3(EditDistance(Tail(s), t) + 1,
              EditDistance(s, Tail(t)) + 1,
              EditDistance(Tail(s), Tail(t)) + (IF Head(s) = Head(t) THEN 0 ELSE 1))

\* C19: for all strings a and b of bounded length over the alphabet,
\* levenshtein(a, b) equals levenshtein(b, a), equals the unit-cost edit
\* distance of a and b, and is 0 exactly when a = b.
C19_LevenshteinExactSymmetric ==
    (prog = "levenshtein" /\ levPc = "done") =>
        /\ levAB = levBA
        /\ levAB = EditDistance(levA, levB)
        /\ levAB = 0 <=> levA = levB
        /\ levAB <= IF Len(levA) >= Len(levB) THEN Len(levA) ELSE Len(levB)

\* two strings of different lengths, two edits apart
C19_Witness ==
    /\ levPc = "done"
    /\ levA = <<"a", "b", "c">>
    /\ levB = <<"b", "a">>
    /\ levAB = 2


\* ------------------------------------------------------------------------
\* Properties of empty subject fields in the contact run
\* ------------------------------------------------------------------------

\* the current matches were accepted by the filter of step n
AcceptedAt(n) == matches # {} /\ matchStep = StepNames[n]

\* the field of candidate c that the filter of step n compares is not empty
CandidateFieldPresent(n, c) ==
    CASE n = 1 -> Truthy(c.phone) /\ StripNonDigits(c.phone) # <<>>
      [] n \in {3, 5, 6} -> Truthy(c.email) /\ Split0(c.email, "@") # <<>>
      [] n = 8 -> Truthy(c.company) /\ Trim(c.company) # <<>>
      [] OTHER -> TRUE

\* C20: a search is issued for a strategy only when the subject fields the
\* strategy requires are not empty (phone digits for step 1, email for steps
\* 2 and 4, email username for step 3, username and domain root for step 5,
\* dot-stripped username for step 6, company text for step 8), and a
\* candidate accepted by the filter of step 1, 3, 5, 6 or 8 has a non-empty
\* value in the compared field: an empty field never matches.
C20_EmptyFieldNeverMatches ==
    prog = "contact" =>
        /\ \A i \in DOMAIN searchLog : FieldsPresent(searchLog[i].step)
        /\ \A n \in 1..NumSteps :
              AcceptedAt(n) =>
                  /\ FieldsPresent(n)
                  /\ \A c \in matches : CandidateFieldPresent(n, c)

\* a subject whose phone has no digit and whose email has no username: the
\* steps 1, 3, 5 and 6 issue no search, and the company step finds the match
C20_Witness ==
    /\ pc = "decide"
    /\ subject.phone = <<"-">>
    /\ subject.email = <<"@", "x">>
    /\ SearchedSteps \cap {1, 3, 5, 6} = {}
    /\ {2, 4} \subseteq SearchedSteps
    /\ AcceptedAt(8)


\* ------------------------------------------------------------------------
\* Properties of the reported match step
\* ------------------------------------------------------------------------

\* the searches whose filtered set was not empty
NonEmptySearches == {i \in DOMAIN searchLog : searchLog[i].found > 0}

\* the first search, in order, whose filtered set was not empty
FirstNonEmpty == CHOOSE i \in NonEmptySearches : \A j \in NonEmptySearches : i <= j

\* step 1 accepted exactly one candidate
SinglePhoneMatch ==
    /\ searchLog # <<>>
    /\ searchLog[1].step = 1
    /\ searchLog[1].found = 1

\* C21: an ambiguous or merged outcome reports as matchStep the name of the
\* first strategy, in order, whose filtered set was not empty, and as
\* matchesFound the size of that set; when the name and phone step accepts
\* exactly one stored contact (another id, equal phone digits) the run posts
\* the merge request for it, and with the request answered the run ends
\* merged with matchStep name_phone.
C21_ReportedStepIsFirstNonEmpty ==
    (prog = "contact" /\ pc = "done") =>
        /\ Reported.status \in {"ambiguous", "merged"} =>
              /\ NonEmptySearches # {}
              /\ Reported.matchStep = StepNames[searchLog[FirstNonEmpty].step]
              /\ Reported.matchesFound = searchLog[FirstNonEmpty].found
              /\ Reported.matchesFound = Cardinality(matches)
        /\ SinglePhoneMatch =>
              /\ Len(searchLog) = 1
              /\ \A c \in matches :
                    /\ c.id # String(contactId)
                    /\ StripNonDigits(c.phone) = StripNonDigits(subject.phone)
              /\ Len(mergeCalls) = 1
              /\ mergeCalls[1].response = "ok" =>
                    /\ Reported.status = "merged"
                    /\ Reported.matchStep = "name_phone"
                    /\ Reported.matchesFound = 1
                    /\ {Reported.primaryId, Reported.mergedId} =
                          {String(contactId)} \cup {c.id : c \in matches}

\* a run whose name and phone step accepted one contact and that ended merged
C21_Witness ==
    /\ pc = "done"
    /\ SinglePhoneMatch
    /\ Reported.status = "merged"
    /\ Reported.matchStep = "name_phone"


\* ------------------------------------------------------------------------
\* Properties of the outcome lists of the company run
\* ------------------------------------------------------------------------

\* the duplicates the loop is done with
ProcessedIds == {duplicatesToCheck[i].id : i \in 1..(dupIndex - 1)}

\* no id occurs twice in the list
NoRepeat(list) == Cardinality(Elements(list)) = Len(list)

\* the loop has ended and the results were returned
LoopEnded == prog = "company" /\ coPc = "done" /\ survivor # NoCompany /\ ~FatalOutcome

\* C22: the merged, failed and skipped lists partition the duplicates the
\* loop has processed, and after the loop all duplicates: every such id is
\* in exactly one list, once; merged_count is the length of the merged list;
\* an id is in the merged list exactly when a merge request for it was
\* answered with success.
C22_OutcomeListsPartition ==
    prog = "company" =>
        /\ Elements(mergedFromIds) \cap Elements(failedMergeIds) = {}
        /\ Elements(mergedFromIds) \cap Elements(skippedMergeIds) = {}
        /\ Elements(failedMergeIds) \cap Elements(skippedMergeIds) = {}
        /\ NoRepeat(mergedFromIds) /\ NoRepeat(failedMergeIds) /\ NoRepeat(skippedMergeIds)
        /\ RecordedIds = ProcessedIds
        /\ mergedCount = Len(mergedFromIds)
        /\ \A t \in DuplicateIds :
              t \in Elements(mergedFromIds) <=> "ok" \in Elements(MergeAnswers(t))
        /\ LoopEnded =>
              /\ RecordedIds = DuplicateIds
              /\ coCallbackLog[1].merged_count = Len(coCallbackLog[1].merged_from_ids)
              /\ coCallbackLog[1].merged_from_ids = mergedFromIds

\* a run that ended with one duplicate merged and the other one failed
C22_Witness ==
    /\ LoopEnded
    /\ Len(mergedFromIds) = 1
    /\ Len(failedMergeIds) = 1
    /\ skippedMergeIds = <<>>

\* the lookups of hs_is_merged that were rejected
FailedLookups == {i \in DOMAIN coTrace :
                    coTrace[i].op = "getById" /\ coTrace[i].response \in LookupFailures}

\* the lookups, answered or not, for target t
LookupsFor(t) == {i \in DOMAIN coTrace : coTrace[i].op = "getById" /\ coTrace[i].target = t}

\* C23: a duplicate whose hs_is_merged lookup is rejected, with 429 or with
\* another error, is recorded as failed; the lookup is issued once, no merge
\* request is issued for that duplicate, and the next step of the run is the
\* lookup for the next duplicate or, after the last one, the return of the
\* results.
C23_FailedLookupFailsTargetOnly ==
    prog = "company" =>
        \A i \in FailedLookups :
            LET t == coTrace[i].target
            IN  /\ t \in Elements(failedMergeIds)
                /\ t \notin Elements(mergedFromIds) \cup Elements(skippedMergeIds)
                /\ LookupsFor(t) = {i}
                /\ MergeAnswers(t) = <<>>
                /\ ~InProgress(t)
                /\ i < Len(coTrace) =>
                      /\ coTrace[i + 1].op = "getById"
                      /\ coTrace[i + 1].target # t
                /\ coPc = "done" => LoopEnded /\ RecordedIds = DuplicateIds

\* a lookup rejected with 429 for one duplicate, then the lookup and the
\* merge of the next duplicate
C23_Witness ==
    \E i \in FailedLookups :
        /\ coTrace[i].response = "429"
        /\ i < Len(coTrace)
        /\ "ok" \in Elements(MergeAnswers(coTrace[i + 1].target))


\* ------------------------------------------------------------------------
\* Properties of the single match of the contact run
\* ------------------------------------------------------------------------

\* the run has exactly one match to decide on
SingleMatch == prog = "contact" /\ pc \in {"decide", "merge", "done"} /\ Cardinality(matches) = 1

\* C24: the ambiguous/same_ids outcome is never reported: the single match
\* has an id other than the enrolled contact's, the primary and the record
\* to merge differ, and a run with exactly one match goes on to the merge
\* request.
C24_SameIdsUnreachable ==
    /\ \A i \in DOMAIN callbackLog : callbackLog[i].reason # "same_ids"
    /\ SingleMatch =>
          /\ FirstMatch.id # String(contactId)
          /\ primaryId # mergeTargetId
          /\ {primaryId, mergeTargetId} = {String(contactId), FirstMatch.id}
          /\ pc = "done" =>
                /\ Len(mergeCalls) = 1
                /\ Reported.status \in {"merged", "error"}

\* the last search returned the enrolled contact itself next to one other
\* record, and the run posted the merge request
C24_Witness ==
    /\ pc = "done"
    /\ Cardinality(matches) = 1
    /\ \E r \in results : r.id = String(contactId)
    /\ Len(mergeCalls) = 1

====
